---- MODULE Spec2Model ----
(***************************************************************************)
(* The SaveText browser client (src/js/app.js and the two earlier          *)
(* revisions of the same file kept in src/unnamed/part_000) as a state     *)
(* machine: the create-flow controller SaveTextApp with its DOM fields,    *)
(* the handleSubmit invocations suspended at an await, and the utility     *)
(* checkIdAvailability taken one await at a time.                          *)
(*                                                                         *)
(* Revisions (variable rev, fixed for a whole behaviour):                  *)
(*   "app"  src/js/app.js                                                  *)
(*   "old"  src/unnamed/part_000 lines 1-418                               *)
(*   "new"  src/unnamed/part_000 lines 420-867                             *)
(***************************************************************************)
EXTENDS Integers, Sequences, FiniteSets

VARIABLES
    rev,            \* which revision of the file is loaded in the page
    textEditor,     \* elements.textEditor.value (run-length text)
    customId,       \* elements.customId.value (sequence of characters)
    fileType,       \* elements.fileType.value
    charCount,      \* elements.charCount: the size meter
    idStatus,       \* elements.idStatus: the advisory identifier indicator
    validations,    \* validateCustomId invocations suspended at their check
    submitBtn,      \* elements.submitBtn: [disabled, label]
    subs,           \* handleSubmit invocations suspended at an await
    result,         \* resultSection / resultId / resultLink
    alertMsg,       \* the open alert() dialog, or NoAlert
    saved,          \* history: identifiers of save requests answered success = true
    call,           \* one utils.checkIdAvailability call, await by await
    searchId,       \* elements.searchId.value (sequence of characters)
    location,       \* window.location: [path, query, href set by the page]
    viewer,         \* the viewer elements and the loadSavedText invocation
    util,           \* one call of a synchronous function of utils: [fn, arg, ret]
    reads,          \* FileReader reads started by handleFileUpload, not yet loaded
    copy,           \* the copy buttons, clipboard writes and their timers
    chosen          \* history: the file last accepted by handleFileUpload

\* the fields of the search box, the address and the View Flow
viewVars == <<searchId, location, viewer, util>>

\* the fields of the Create Flow
createVars == <<rev, textEditor, customId, fileType, charCount, idStatus, validations,
                submitBtn, subs, result, alertMsg, saved, call>>

\* the file reads and the copy buttons
sideVars == <<reads, copy, chosen>>

vars == <<rev, textEditor, customId, fileType, charCount, idStatus, validations,
          submitBtn, subs, result, alertMsg, saved, call, searchId, location,
          viewer, util, reads, copy, chosen>>

(***************************************************************************)
(* Bounds of the model.                                                    *)
(***************************************************************************)
\* handleSubmit invocations that may be suspended at the same time, where the
\* clicks race (SpecRace)
MaxSubmits == 2
\* the same elsewhere (Spec, SpecLoop)
MaxInFlight == 1
\* validateCustomId invocations that may be suspended at the same time
MaxValidations == 1
\* regenerations followed in one handleSubmit of a revision whose loop has no cap
MaxRegen == 11
\* FileReader reads that may be outstanding at the same time
MaxReads == 2
\* clipboard writes and acknowledgment timers that may be outstanding together
MaxCopies == 2

(***************************************************************************)
(* Program constants.                                                      *)
(***************************************************************************)
\* CONFIG.MAX_SIZE = 2.5 * 1024 * 1024
MAX_SIZE == 2621440
\* CONFIG.MAX_CHARS
MAX_CHARS == 2621440
\* `attempts < 10` of the capped regeneration loop
RetryCap == 10
\* generateId: Math.floor(IdBase + Math.random() * IdSpan)
IdBase == 100000
IdSpan == 900000

Revisions == {"app", "old", "new"}

(***************************************************************************)
(* Characters.  A JavaScript string is modelled two ways: a short string   *)
(* (an identifier field) is the sequence of its characters; the editor     *)
(* content, which the size gate measures in megabytes, is a sequence of    *)
(* runs [ch, n]: n copies of the character ch.  A character outside ASCII  *)
(* is named by its code point.                                             *)
(***************************************************************************)
Digits == {"0", "1", "2", "3", "4", "5", "6", "7", "8", "9"}

\* String.prototype.trim removes white space from both ends
IsWhiteSpace(ch) == ch \in {" ", "\n", "\t"}

\* bytes of the character in UTF-8 (what Blob stores for a string part)
Utf8Width(ch) ==
    CASE ch \in {"U+00E9"} -> 2
      [] ch \in {"U+20AC"} -> 3
      [] ch \in {"U+1F600"} -> 4
      [] OTHER -> 1

\* UTF-16 code units of the character (what String.length counts)
Utf16Units(ch) == IF ch \in {"U+1F600"} THEN 2 ELSE 1

RECURSIVE TrimStart(_)
TrimStart(s) ==
    IF s # <<>> /\ IsWhiteSpace(Head(s)) THEN TrimStart(Tail(s)) ELSE s

RECURSIVE TrimEnd(_)
TrimEnd(s) ==
    IF s # <<>> /\ IsWhiteSpace(s[Len(s)])
    THEN TrimEnd(SubSeq(s, 1, Len(s) - 1))
    ELSE s

\* s.trim() on a short string
TrimStr(s) == TrimEnd(TrimStart(s))

\* s.replace(/\D/g, '')
RECURSIVE StripNonDigits(_)
StripNonDigits(s) ==
    IF s = <<>> THEN <<>>
    ELSE IF Head(s) \in Digits
         THEN <<Head(s)>> \o StripNonDigits(Tail(s))
         ELSE StripNonDigits(Tail(s))

RECURSIVE TrimRunsStart(_)
TrimRunsStart(t) ==
    IF t # <<>> /\ IsWhiteSpace(Head(t).ch) THEN TrimRunsStart(Tail(t)) ELSE t

RECURSIVE TrimRunsEnd(_)
TrimRunsEnd(t) ==
    IF t # <<>> /\ IsWhiteSpace(t[Len(t)].ch)
    THEN TrimRunsEnd(SubSeq(t, 1, Len(t) - 1))
    ELSE t

\* value.trim() on the editor content
TrimText(t) == TrimRunsEnd(TrimRunsStart(t))

\* new Blob([content]).size
RECURSIVE BlobSize(_)
BlobSize(t) ==
    IF t = <<>> THEN 0
    ELSE Head(t).n * Utf8Width(Head(t).ch) + BlobSize(Tail(t))

\* content.length
RECURSIVE StrLength(_)
StrLength(t) ==
    IF t = <<>> THEN 0
    ELSE Head(t).n * Utf16Units(Head(t).ch) + StrLength(Tail(t))

Run(c, k) == [ch |-> c, n |-> k]

(***************************************************************************)
(* utils                                                                   *)
(***************************************************************************)
\* validateId with the quantifier {1,6}
validateIdUpToSix(id) ==
    Len(id) >= 1 /\ Len(id) <= 6 /\ \A i \in 1..Len(id) : id[i] \in Digits

\* validateId with a `$` that also matches before a final line terminator
validateIdLaxEnd(id) ==
    LET body == IF id # <<>> /\ id[Len(id)] = "\n" THEN SubSeq(id, 1, Len(id) - 1) ELSE id
    IN Len(body) = 6 /\ \A i \in 1..Len(body) : body[i] \in Digits

\* /^\d{6}$/.test(id): six characters, each a digit, and nothing after them
validateId(id) == Len(id) = 6 /\ \A i \in 1..Len(id) : id[i] \in Digits

DigitChars == <<"0", "1", "2", "3", "4", "5", "6", "7", "8", "9">>

\* Number.prototype.toString of a non-negative integer
RECURSIVE ToString(_)
ToString(k) ==
    IF k < 10 THEN <<DigitChars[k + 1]>>
    ELSE ToString(k \div 10) \o <<DigitChars[(k % 10) + 1]>>

\* Math.random() returns r / RandDen for some r in 0 .. RandDen - 1
RandDen == 1000

\* generateId with the span 1000000
generateIdWide(r) == ToString(IdBase + ((r * 1000000) \div RandDen))

\* Math.floor(100000 + Math.random() * 900000).toString()
generateId(r) == ToString(IdBase + ((r * IdSpan) \div RandDen))

\* `const k = 1024` of formatBytes
K == 1024

\* Math.floor(Math.log(bytes) / Math.log(k)) for 1 <= bytes < k^3
LogK(bytes) == IF bytes < K THEN 0 ELSE IF bytes < K * K THEN 1 ELSE 2

\* Math.pow(k, i)
PowK(i) == IF i = 0 THEN 1 ELSE IF i = 1 THEN K ELSE K * K

\* Math.round(bytes / d * 100): the hundredths of the quotient, half rounded up
\* (parseFloat(x.toFixed(2)) of the later revision gives the same number)
Hundredths(bytes, d) ==
    (bytes \div d) * 100 + (2 * (bytes % d) * 100 + d) \div (2 * d)

\* the decimal text of the number h / 100: no trailing zeros, no bare point
HundredthsText(h) ==
    LET whole == ToString(h \div 100)
        frac == h % 100
    IN IF frac = 0 THEN whole
       ELSE IF frac % 10 = 0 THEN whole \o <<".">> \o ToString(frac \div 10)
       ELSE whole \o <<".", DigitChars[(frac \div 10) + 1], DigitChars[(frac % 10) + 1]>>

\* the array `sizes`, per revision
sizes(rv) == IF rv = "new" THEN <<"B", "KB", "MB">> ELSE <<"Bytes", "KB", "MB">>

\* formatBytes(bytes) for 0 <= bytes < k^3
formatBytes(rv, bytes) ==
    IF bytes = 0 THEN <<"0", " ", sizes(rv)[1]>>
    ELSE LET i == LogK(bytes)
         IN HundredthsText(Hundredths(bytes, PowK(i))) \o <<" ", sizes(rv)[i + 1]>>

\* Number.prototype.toString of an integer
NumToString(k) == IF k < 0 THEN <<"-">> \o ToString(0 - k) ELSE ToString(k)

\* a % b of JavaScript for b > 0: the remainder takes the sign of the dividend
JsRem(a, b) == IF a >= 0 THEN a % b ELSE 0 - ((0 - a) % b)

\* milliseconds in an hour and in a minute
MsPerHour == 3600000
MsPerMinute == 60000

\* the `hours` and `minutes` of formatExpiry for diff = date - now (in ms)
ExpiryHours(diff) == diff \div MsPerHour
ExpiryMinutes(diff) == JsRem(diff, MsPerHour) \div MsPerMinute

\* formatExpiry with the branches of app.js whatever the revision
formatExpiryNoMinutesBranch(rv, diff) ==
    LET hours == ExpiryHours(diff)
        minutes == ExpiryMinutes(diff)
    IN IF hours <= 0 /\ minutes <= 0 THEN <<"Expired">>
       ELSE NumToString(hours) \o <<"h", " ">> \o NumToString(minutes) \o <<"m">>

\* formatExpiry(timestamp), as a function of diff: "old" has neither early
\* return, "app" has the 'Expired' one, "new" has both
formatExpiry(rv, diff) ==
    LET hours == ExpiryHours(diff)
        minutes == ExpiryMinutes(diff)
    IN IF rv # "old" /\ hours <= 0 /\ minutes <= 0 THEN <<"Expired">>
       ELSE IF rv = "new" /\ hours < 1 THEN NumToString(minutes) \o <<"m">>
       ELSE NumToString(hours) \o <<"h", " ">> \o NumToString(minutes) \o <<"m">>

\* `date - now` for a timestamp in seconds and a clock in milliseconds
ExpiryDiff(timestamp, now) == timestamp * 1000 - now

\* the keys of the object literal `extensions`, per revision
ExtensionKeys(rv) ==
    {"txt", "md", "json", "xml", "html", "css", "js", "py", "java", "cpp", "other"}
    \cup (IF rv = "old" THEN {} ELSE {"php"})
    \cup (IF rv = "new" THEN {"sql", "yaml"} ELSE {})

\* property names every object literal inherits from Object.prototype
InheritedKeys == {"constructor", "toString", "valueOf", "hasOwnProperty", "__proto__"}

\* what a template literal prints for extensions[type] of an inherited name
InheritedText(type) ==
    IF type = "__proto__" THEN "[object Object]" ELSE "function () { [native code] }"

\* getFileExtension looking at own keys only
getFileExtensionOwnKeys(rv, type) ==
    IF type \in ExtensionKeys(rv)
    THEN (IF type = "other" THEN "txt" ELSE type)
    ELSE "txt"

\* getFileExtension(type): extensions[type] || 'txt'
getFileExtension(rv, type) ==
    IF type \in ExtensionKeys(rv)
    THEN (IF type = "other" THEN "txt" ELSE type)
    ELSE IF type \in InheritedKeys THEN InheritedText(type)
    ELSE "txt"

\* escapeHtml returning its argument
escapeHtmlIdentity(text) == text

\* escapeHtml(text): div.textContent = text; return div.innerHTML.  The
\* serialisation of a text node replaces &, <, > and U+00A0
escapeHtml(text) ==
    [i \in 1..Len(text) |->
        CASE text[i] = "&" -> "&amp;"
          [] text[i] = "<" -> "&lt;"
          [] text[i] = ">" -> "&gt;"
          [] text[i] = "U+00A0" -> "&nbsp;"
          [] OTHER -> text[i]]

(***************************************************************************)
(* JavaScript values read out of a parsed response body, written as their  *)
(* literals; "-" where there is nothing to read.                           *)
(***************************************************************************)
\* the values `!v` turns into true
Falsy == {"undefined", "null", "false", "0", "''"}
Truthy(v) == v \notin Falsy

\* What the check endpoint may answer.  transport: the fetch promise is
\* fulfilled ("ok", whatever the HTTP status) or rejected; body: response.json()
\* is fulfilled or rejected; data: the type of the parsed value; exists: the
\* value of data.exists.
CheckResponses ==
    {[transport |-> "rejected", body |-> "-", data |-> "-", exists |-> "-"]}
    \cup {[transport |-> "ok", body |-> "not-json", data |-> "-", exists |-> "-"]}
    \cup {[transport |-> "ok", body |-> "json", data |-> "null", exists |-> "-"]}
    \cup {[transport |-> "ok", body |-> "json", data |-> d, exists |-> "undefined"] :
             d \in {"array", "string", "error-object", "empty-object"}}
    \cup {[transport |-> "ok", body |-> "json", data |-> "object", exists |-> e] :
             e \in {"true", "false", "null", "0", "1", "'false'", "'yes'", "''"}}

\* `await fetch(...)` throws
FetchRejects(resp) == resp.transport = "rejected"
\* `await response.json()` throws
JsonRejects(resp) == resp.body = "not-json"
\* reading a property of null throws a TypeError
ReadThrows(resp) == resp.data = "null"
\* `!data.exists`
NotExists(resp) == ~Truthy(resp.exists)

\* the catch block returning true
OnCheckErrorOpen == [ret |-> TRUE, threw |-> FALSE]

\* the catch block of checkIdAvailability: log, return false
OnCheckError == [ret |-> FALSE, threw |-> FALSE]

\* checkIdAvailability as one function of the endpoint's answer
checkIdAvailability(resp) ==
    IF FetchRejects(resp) \/ JsonRejects(resp) \/ ReadThrows(resp)
    THEN OnCheckError
    ELSE [ret |-> NotExists(resp), threw |-> FALSE]

\* What the save endpoint may answer: as above, with data.success and
\* data.message.
SaveResponses ==
    {[transport |-> "rejected", body |-> "-", data |-> "-", success |-> "-", message |-> "-"]}
    \cup {[transport |-> "ok", body |-> "not-json", data |-> "-", success |-> "-", message |-> "-"]}
    \cup {[transport |-> "ok", body |-> "json", data |-> "null", success |-> "-", message |-> "-"]}
    \cup {[transport |-> "ok", body |-> "json", data |-> "object", success |-> "true",
           message |-> "undefined"]}
    \cup {[transport |-> "ok", body |-> "json", data |-> "object", success |-> s, message |-> m] :
             s \in {"false", "undefined"}, m \in {"undefined", "'ID already exists'"}}

\* error.message always the text of the handler's own Error
SaveErrorGeneric(resp) == "Failed to save"

\* error.message as the catch block of handleSubmit sees it
SaveErrorMessage(resp) ==
    CASE FetchRejects(resp) -> "Failed to fetch"
      [] JsonRejects(resp) -> "Unexpected token"
      [] ReadThrows(resp) -> "Cannot read properties of null"
      [] OTHER -> IF Truthy(resp.message) THEN resp.message ELSE "Failed to save"

(***************************************************************************)
(* The page: SaveTextApp in Create Flow.                                   *)
(***************************************************************************)
NoAlert == <<>>

\* window.location.origin, one opaque token
Origin == <<"origin">>

\* the labels of the submit control
NormalLabel == "Save Text"
SavingLabel == "Saving..."

\* options of the file-type select used in the model
FileTypes == {"txt", "js"}

\* identifiers used as custom ids: a valid one, and what a user may type
IdA == <<"1", "2", "3", "4", "5", "6">>
IdShort == <<"1", "2", "3", "4", "5">>
IdPadded == <<" ", "1", "2", "3", "4", "5", "6">>
TypedIds == {<<>>, IdA, IdShort, IdPadded}

\* values of Math.random() (numerators over RandDen) followed by the model:
\* the least and the greatest, giving "100000" and "999100"
GenSamples == {0, RandDen - 1}
\* the one followed where every input of the page is
FewSamples == {0}

\* editor contents a user may produce
TextBlank == <<Run(" ", 3)>>
TextSmall == <<Run(" ", 1), Run("a", 2), Run("\n", 1)>>
\* 873813 three-byte characters and one ASCII character: 2,621,440 bytes after
\* trimming, 873,814 characters
TextAtLimit == <<Run(" ", 2), Run("U+20AC", 873813), Run("a", 1), Run(" ", 1)>>
\* one byte more, 873,815 characters
TextOverLimit == <<Run("U+20AC", 873813), Run("a", 2)>>
EditorTexts == {<<>>, TextBlank, TextSmall, TextAtLimit, TextOverLimit}

RemoveAt(s, i) == SubSeq(s, 1, i - 1) \o SubSeq(s, i + 1, Len(s))

\* validateContent comparing content.length
validateContentByLength(content) == StrLength(content) <= MAX_SIZE

\* validateContent(content)
validateContent(content) == BlobSize(content) <= MAX_SIZE

\* updateCharCount: the meter counts string length against MAX_CHARS in the
\* revisions "app" and "old", and Blob bytes against MAX_SIZE in "new"
updateCharCount(rv, value) ==
    IF rv = "new"
    THEN [shown |-> BlobSize(value), unit |-> "bytes",
          over |-> BlobSize(value) > MAX_SIZE]
    ELSE [shown |-> StrLength(value), unit |-> "characters",
          over |-> StrLength(value) > MAX_CHARS]

\* the indicator texts of validateCustomId, per revision
StatusClear == [text |-> "", className |-> "id-status"]
StatusInvalid(rv) ==
    [text |-> IF rv = "new" THEN "bi-x-circle" ELSE "Must be 6 digits",
     className |-> "id-status taken"]
StatusAvailable(rv) ==
    [text |-> IF rv = "new" THEN "bi-check-circle" ELSE "Available",
     className |-> "id-status available"]
StatusTaken(rv) ==
    [text |-> IF rv = "new" THEN "bi-x-circle" ELSE "Already taken",
     className |-> "id-status taken"]

\* the 'input' listener of customId: "app" and "new" strip non-digits in place
CleanedInput(rv, raw) == IF rv = "old" THEN raw ELSE StripNonDigits(raw)

\* window.location of the page the Create Flow is served at: no identifier in
\* the path or in the query, and nothing assigned to href
CreateLocation == [path |-> <<"/">>, hasId |-> FALSE, id |-> <<>>, href |-> <<>>]

\* what get.php answered, before any answer
NoData ==
    [transport |-> "-", body |-> "-", data |-> "-", success |-> "-", message |-> "-",
     fileType |-> "-", content |-> <<>>, expiresAt |-> 0]

\* viewerContent.innerHTML as served
ContentAsServed == [kind |-> "served", lang |-> "-", text |-> <<>>]

\* viewerId / viewerType / viewerExpires as served
HeaderAsServed == [id |-> <<>>, type |-> "-", expires |-> <<>>]

\* the viewer elements before loadSavedText: `present` is whether the page has
\* the element viewerContent; pc is where loadSavedText(id) stands, gets counts
\* its requests to get.php, bound is whether the action buttons have their
\* listeners, threw whether loadSavedText ended in a rejected promise, download
\* the name of the file last offered by downloadContent, raw the identifier in
\* the address of raw.php last opened
ViewerAsServed(present) ==
    [present |-> present, pc |-> "idle", id |-> <<>>, gets |-> 0, data |-> NoData,
     content |-> ContentAsServed, header |-> HeaderAsServed, bound |-> FALSE,
     threw |-> FALSE, download |-> <<>>, raw |-> <<>>]

\* no synchronous function of utils has been called; a call is [fn, arg, ret]
\* with ret the returned text as a sequence (a boolean as its literal)
NoUtil == [fn |-> "none", arg |-> <<>>, ret |-> <<>>]

\* the label of a copy button: textContent in "app" and "old", the className of
\* the icon inside the button in "new"; the page is taken to be served with the
\* label that the timers of the code put back
CopyLabel(rv) == IF rv = "new" THEN "bi bi-clipboard" ELSE "Copy"
CopiedLabel(rv) == IF rv = "new" THEN "bi bi-check" ELSE "Copied!"

\* the copy buttons as served: copyBtn of the result section and copyContentBtn
\* of the viewer, the navigator.clipboard.writeText promises not yet settled
\* (each with the button its callback will write to) and the setTimeout
\* callbacks not yet run (each with the button and the label it will write)
CopyAsServed(rv) ==
    [copyBtn |-> CopyLabel(rv), copyContentBtn |-> CopyLabel(rv),
     writes |-> <<>>, timers |-> <<>>]

\* no file has been accepted yet; otherwise `file` is the file handleFileUpload
\* accepted last and typeBefore the file-type selection when the first of the
\* reads now outstanding was started
NoChoice ==
    [file |-> [name |-> <<>>, size |-> 0, text |-> <<>>], typeBefore |-> "-"]

NoResp == [transport |-> "-", body |-> "-", data |-> "-", exists |-> "-"]
IdleCall == [pc |-> "idle", id |-> <<>>, resp |-> NoResp, ret |-> FALSE, threw |-> FALSE]

Init ==
    /\ rev \in Revisions
    /\ textEditor = <<>>
    /\ customId = <<>>
    /\ fileType \in FileTypes
    /\ charCount = [shown |-> 0, unit |-> "-", over |-> FALSE]
    /\ idStatus = StatusClear
    /\ validations = <<>>
    /\ submitBtn = [disabled |-> FALSE, label |-> NormalLabel]
    /\ subs = <<>>
    /\ result = [hidden |-> TRUE, id |-> <<>>, link |-> <<>>]
    /\ alertMsg = NoAlert
    /\ saved = {}
    /\ call = IdleCall
    /\ searchId = <<>>
    /\ location = CreateLocation
    /\ viewer = ViewerAsServed(FALSE)
    /\ util = NoUtil
    /\ reads = <<>>
    /\ copy = CopyAsServed(rev)
    /\ chosen = NoChoice

\* the 'input' listener of textEditor
EditorInput(t) ==
    /\ alertMsg = NoAlert
    /\ textEditor' = t
    /\ charCount' = updateCharCount(rev, t)
    /\ UNCHANGED <<rev, customId, fileType, idStatus, validations, submitBtn, subs,
                   result, alertMsg, saved, call>>
    /\ UNCHANGED viewVars
    /\ UNCHANGED sideVars

\* the user picks another option of the file-type select (no listener)
FileTypeChange(ft) ==
    /\ alertMsg = NoAlert
    /\ ft # fileType
    /\ fileType' = ft
    /\ UNCHANGED <<rev, textEditor, customId, charCount, idStatus, validations,
                   submitBtn, subs, result, alertMsg, saved, call>>
    /\ UNCHANGED viewVars
    /\ UNCHANGED sideVars

\* the 'input' listener of customId, with validateCustomId up to its await
CustomIdInput(raw) ==
    /\ alertMsg = NoAlert
    /\ LET value == CleanedInput(rev, raw)
       IN /\ customId' = value
          /\ IF value = <<>>
             THEN idStatus' = StatusClear /\ UNCHANGED validations
             ELSE IF ~validateId(value)
                  THEN idStatus' = StatusInvalid(rev) /\ UNCHANGED validations
                  ELSE /\ Len(validations) < MaxValidations
                       /\ validations' = Append(validations, value)
                       /\ UNCHANGED idStatus
    /\ UNCHANGED <<rev, textEditor, fileType, charCount, submitBtn, subs, result,
                   alertMsg, saved, call>>
    /\ UNCHANGED viewVars
    /\ UNCHANGED sideVars

\* the indicator showing 'available' whatever the check returned
StatusAlwaysAvailable(rv, available) == StatusAvailable(rv)

\* the indicator validateCustomId writes once its check has returned
StatusAfterCheck(rv, available) ==
    IF available THEN StatusAvailable(rv) ELSE StatusTaken(rv)

\* validateCustomId resumes with the answer to its availability check
ValidationReturns(i, resp) ==
    /\ alertMsg = NoAlert
    /\ i \in 1..Len(validations)
    /\ idStatus' = StatusAfterCheck(rev, checkIdAvailability(resp).ret)
    /\ validations' = RemoveAt(validations, i)
    /\ UNCHANGED <<rev, textEditor, customId, fileType, charCount, submitBtn, subs,
                   result, alertMsg, saved, call>>
    /\ UNCHANGED viewVars
    /\ UNCHANGED sideVars

(***************************************************************************)
(* handleSubmit.  One invocation is a record of its local variables and    *)
(* of the await it is suspended at: pc = "check" (the request of           *)
(* checkIdAvailability(id) is outstanding), "save" (the save request is    *)
(* outstanding) or "alert" (inside alert() of the catch block).            *)
(* attempts counts the regenerations of the loop (the local of "new"; a    *)
(* history of the loop in "app" and "old", which keep no counter) and is   *)
(* gone once the loop is left.  lastCheck and collided are history: the    *)
(* answer of the invocation's latest check, and whether it regenerated;    *)
(* failure is the answer of save.php the catch block was entered on; draft *)
(* is what the fields of the draft held when handleSubmit was invoked.     *)
(***************************************************************************)
NoSaveResp ==
    [transport |-> "-", body |-> "-", data |-> "-", success |-> "-", message |-> "-"]

Invocation(custom, id, content) ==
    [pc |-> "check", custom |-> custom, id |-> id, content |-> content,
     attempts |-> 0, fileType |-> "-", originalContent |-> "-",
     lastCheck |-> "none", collided |-> FALSE, failure |-> NoSaveResp,
     draft |-> [content |-> textEditor, fileType |-> fileType, customId |-> customId]]

\* the body of the save request an invocation has sent
SavePayload(inv) == [id |-> inv.id, content |-> inv.content, fileType |-> inv.fileType]

\* alert texts of the validation errors
AlertEmpty == <<"Please enter some content">>
AlertTooLarge == <<"Content too large">>
AlertBadId == <<"ID must be exactly 6 digits">>
AlertTaken == <<"This ID is already taken">>

\* the size gate of handleSubmit on the trimmed content
ContentRejected(content) == ~validateContent(content)

\* the first lines of handleSubmit, to the first await or return; `limit`
\* bounds the invocations suspended at once, r is what Math.random() returns
SubmitClick(limit, r) ==
    /\ alertMsg = NoAlert
    /\ ~submitBtn.disabled
    /\ LET content == TrimText(textEditor)
           id == TrimStr(customId)
       IN IF content = <<>>
          THEN alertMsg' = AlertEmpty /\ UNCHANGED subs
          ELSE IF ContentRejected(content)
          THEN alertMsg' = AlertTooLarge /\ UNCHANGED subs
          ELSE IF id = <<>>
          THEN /\ Len(subs) < limit
               /\ subs' = Append(subs, Invocation(FALSE, generateId(r), content))
               /\ UNCHANGED alertMsg
          ELSE IF ~validateId(id)
          THEN alertMsg' = AlertBadId /\ UNCHANGED subs
          ELSE /\ Len(subs) < limit
               /\ subs' = Append(subs, Invocation(TRUE, id, content))
               /\ UNCHANGED alertMsg
    /\ UNCHANGED <<rev, textEditor, customId, fileType, charCount, idStatus,
                   validations, submitBtn, result, saved, call>>
    /\ UNCHANGED viewVars
    /\ UNCHANGED sideVars

\* the loop condition with the comparison of attempts turned round
LoopWrongComparison(rv, available, attempts) ==
    ~available /\ attempts > RetryCap

\* the condition of the regeneration loop, after a check answered `available`
\* with `attempts` regenerations done: `!(await check(id)) && attempts < 10`
\* in "new", `!(await check(id))` in "app" and "old"
LoopContinues(rv, available, attempts) ==
    ~available /\ (rv = "new" => attempts < RetryCap)

\* the custom identifier kept whatever the check answered
CustomNeverRejected(available) == FALSE

\* whether a custom identifier whose check answered `available` is given up
CustomRejected(available) == ~available

\* the lines between the identifier and the fetch of save.php: the control is
\* disabled, the payload is built from the locals and the current file type
IssueSave(i, available) ==
    /\ submitBtn' = [disabled |-> TRUE, label |-> SavingLabel]
    /\ subs' = [subs EXCEPT ![i].pc = "save",
                            ![i].attempts = 0,
                            ![i].lastCheck = IF available THEN "free" ELSE "taken",
                            ![i].fileType = fileType,
                            ![i].originalContent =
                                IF rev = "new" THEN submitBtn.label ELSE "-"]

\* an invocation resumes with the answer to its availability check; r is what
\* Math.random() returns
CheckReturns(i, resp, r) ==
    /\ alertMsg = NoAlert
    /\ i \in 1..Len(subs)
    /\ subs[i].pc = "check"
    /\ LET inv == subs[i]
           available == checkIdAvailability(resp).ret
       IN IF inv.custom
          THEN IF CustomRejected(available)
               THEN /\ alertMsg' = AlertTaken
                    /\ subs' = RemoveAt(subs, i)
                    /\ UNCHANGED submitBtn
               ELSE IssueSave(i, available) /\ UNCHANGED alertMsg
          ELSE IF LoopContinues(rev, available, inv.attempts)
               THEN /\ rev # "new" => inv.attempts < MaxRegen
                    /\ subs' = [subs EXCEPT ![i].id = generateId(r),
                                            ![i].attempts = @ + 1,
                                            ![i].lastCheck = "taken",
                                            ![i].collided = TRUE]
                    /\ UNCHANGED <<submitBtn, alertMsg>>
               ELSE IssueSave(i, available) /\ UNCHANGED alertMsg
    /\ UNCHANGED <<rev, textEditor, customId, fileType, charCount, idStatus,
                   validations, result, saved, call>>
    /\ UNCHANGED viewVars
    /\ UNCHANGED sideVars

\* success taken to mean that a body arrived
SaveArrived(resp) ==
    ~FetchRejects(resp) /\ ~JsonRejects(resp) /\ ~ReadThrows(resp)

\* `data.success` is read and is truthy
SaveSucceeded(resp) ==
    ~FetchRejects(resp) /\ ~JsonRejects(resp) /\ ~ReadThrows(resp)
        /\ Truthy(resp.success)

\* showResult(id)
showResult(id) == [hidden |-> FALSE, id |-> id, link |-> Origin \o <<"/">> \o id]

\* the control after the finally block ("app", "new") for invocation inv
Reenabled(rv, inv) ==
    [disabled |-> FALSE,
     label |-> IF rv = "new" THEN inv.originalContent ELSE NormalLabel]

\* the control once the try statement is left on the success path: "old" has
\* no finally block and restores the control in its catch block only
AfterSuccess(rv, inv, btn) == IF rv = "old" THEN btn ELSE Reenabled(rv, inv)

\* the save request of an invocation settles
SaveSettles(i, resp) ==
    /\ alertMsg = NoAlert
    /\ i \in 1..Len(subs)
    /\ subs[i].pc = "save"
    /\ LET inv == subs[i]
       IN IF SaveSucceeded(resp)
          THEN /\ result' = showResult(inv.id)
               /\ submitBtn' = AfterSuccess(rev, inv, submitBtn)
               /\ subs' = RemoveAt(subs, i)
               /\ saved' = IF resp.success = "true" THEN saved \cup {inv.id} ELSE saved
               /\ UNCHANGED alertMsg
          ELSE /\ alertMsg' = <<"Error: ", SaveErrorMessage(resp)>>
               /\ subs' = [subs EXCEPT ![i].pc = "alert", ![i].failure = resp]
               /\ UNCHANGED <<result, submitBtn, saved>>
    /\ UNCHANGED <<rev, textEditor, customId, fileType, charCount, idStatus,
                   validations, call>>
    /\ UNCHANGED viewVars
    /\ UNCHANGED sideVars

\* the user closes the alert; an invocation stopped inside its catch block goes
\* on to restore the control and ends
DismissAlert ==
    /\ alertMsg # NoAlert
    /\ alertMsg' = NoAlert
    /\ LET blocked == {i \in 1..Len(subs) : subs[i].pc = "alert"}
       IN IF blocked = {}
          THEN UNCHANGED <<subs, submitBtn>>
          ELSE LET i == CHOOSE j \in blocked : TRUE
               IN /\ submitBtn' = Reenabled(rev, subs[i])
                  /\ subs' = RemoveAt(subs, i)
    /\ UNCHANGED <<rev, textEditor, customId, fileType, charCount, idStatus,
                   validations, result, saved, call>>
    /\ UNCHANGED viewVars
    /\ UNCHANGED sideVars

\* checkIdAvailability(id), one await at a time: the request is sent
CallCheck(id) ==
    /\ call.pc = "idle"
    /\ call' = [IdleCall EXCEPT !.pc = "fetch", !.id = id]
    /\ UNCHANGED <<rev, textEditor, customId, fileType, charCount, idStatus,
                   validations, submitBtn, subs, result, alertMsg, saved>>
    /\ UNCHANGED viewVars
    /\ UNCHANGED sideVars

\* `await fetch(...)` settles; the endpoint's whole answer is fixed here
FetchSettles(resp) ==
    /\ call.pc = "fetch"
    /\ call' = IF FetchRejects(resp)
               THEN [call EXCEPT !.pc = "done", !.resp = resp,
                                 !.ret = checkIdAvailability(resp).ret,
                                 !.threw = checkIdAvailability(resp).threw]
               ELSE [call EXCEPT !.pc = "json", !.resp = resp]
    /\ UNCHANGED <<rev, textEditor, customId, fileType, charCount, idStatus,
                   validations, submitBtn, subs, result, alertMsg, saved>>
    /\ UNCHANGED viewVars
    /\ UNCHANGED sideVars

\* `await response.json()` settles and `!data.exists` is evaluated
JsonSettles ==
    /\ call.pc = "json"
    /\ call' = [call EXCEPT !.pc = "done",
                            !.ret = checkIdAvailability(call.resp).ret,
                            !.threw = checkIdAvailability(call.resp).threw]
    /\ UNCHANGED <<rev, textEditor, customId, fileType, charCount, idStatus,
                   validations, submitBtn, subs, result, alertMsg, saved>>
    /\ UNCHANGED viewVars
    /\ UNCHANGED sideVars

\* the caller has taken the value
CallReturns ==
    /\ call.pc = "done"
    /\ call' = IdleCall
    /\ UNCHANGED <<rev, textEditor, customId, fileType, charCount, idStatus,
                   validations, submitBtn, subs, result, alertMsg, saved>>
    /\ UNCHANGED viewVars
    /\ UNCHANGED sideVars

(***************************************************************************)
(* handleFileUpload and the FileReader it starts.                          *)
(***************************************************************************)
\* String.prototype.toLowerCase on the name pieces of the model
ToLowerCase(t) ==
    CASE t = "JS" -> "js"
      [] t = "TXT" -> "txt"
      [] t = "README" -> "readme"
      [] OTHER -> t

\* file.name.split('.').pop().toLowerCase(); a name is the sequence of its
\* pieces between the dots
FileExtension(name) == ToLowerCase(name[Len(name)])

\* 873813 three-byte characters and one ASCII character: 2,621,440 bytes
FileAtLimit == <<Run("U+20AC", 873813), Run("a", 1)>>

\* files a user may drop or pick: UTF-8 text files, size in bytes
FileNames == {<<"notes", "JS">>, <<"data", "zip">>, <<"README">>}
FileTexts == {TextSmall, FileAtLimit, TextOverLimit}
UploadFiles ==
    {[name |-> n, size |-> BlobSize(t), text |-> t] : n \in FileNames, t \in FileTexts}

AlertFileTooLarge == <<"File too large">>

\* the size test letting no file of the ceiling's size through
FileRejectedAtLimit(file) == file.size >= MAX_SIZE

\* the size test of handleFileUpload
FileRejected(file) == file.size > MAX_SIZE

\* handleFileUpload(file), to reader.readAsText(file)
handleFileUpload(file) ==
    /\ alertMsg = NoAlert
    /\ IF FileRejected(file)
       THEN alertMsg' = AlertFileTooLarge /\ UNCHANGED <<reads, chosen>>
       ELSE /\ Len(reads) < MaxReads
            /\ reads' = Append(reads, file)
            /\ chosen' = [file |-> file,
                          typeBefore |-> IF reads = <<>> THEN fileType
                                         ELSE chosen.typeBefore]
            /\ UNCHANGED alertMsg
    /\ UNCHANGED <<rev, textEditor, customId, fileType, charCount, idStatus,
                   validations, submitBtn, subs, result, saved, call>>
    /\ UNCHANGED viewVars
    /\ UNCHANGED copy

\* reader.onload of the i-th read not yet loaded
ReaderLoads(i) ==
    /\ alertMsg = NoAlert
    /\ i \in 1..Len(reads)
    /\ LET file == reads[i]
           ext == FileExtension(file.name)
       IN /\ textEditor' = file.text
          /\ charCount' = updateCharCount(rev, file.text)
          /\ fileType' = IF ext \in FileTypes THEN ext ELSE fileType
    /\ reads' = RemoveAt(reads, i)
    /\ UNCHANGED <<rev, customId, idStatus, validations, submitBtn, subs, result,
                   alertMsg, saved, call>>
    /\ UNCHANGED viewVars
    /\ UNCHANGED <<copy, chosen>>

\* the i-th read fails: the reader has no onerror handler
ReaderFails(i) ==
    /\ i \in 1..Len(reads)
    /\ reads' = RemoveAt(reads, i)
    /\ UNCHANGED createVars
    /\ UNCHANGED viewVars
    /\ UNCHANGED <<copy, chosen>>

(***************************************************************************)
(* The View Flow: checkViewMode at construction, loadSavedText.            *)
(***************************************************************************)
\* positions of a "/" followed by six digits: path.match(/\/(\d{6})/)
PathMatches(path) ==
    {p \in 1..(Len(path) - 6) :
        path[p] = "/" /\ \A k \in 1..6 : path[p + k] \in Digits}

\* match[1] of the leftmost match
MatchedId(path) ==
    LET p == CHOOSE q \in PathMatches(path) : \A o \in PathMatches(path) : q <= o
    IN SubSeq(path, p + 1, p + 6)

\* the identifier checkViewMode finds in the address: "old" matches the path,
\* "app" and "new" read the query parameter id
ViewModeId(rv, loc) ==
    IF rv = "old"
    THEN IF PathMatches(loc.path) # {}
         THEN [found |-> TRUE, id |-> MatchedId(loc.path)]
         ELSE [found |-> FALSE, id |-> <<>>]
    ELSE IF loc.hasId /\ loc.id # <<>>
         THEN [found |-> TRUE, id |-> loc.id]
         ELSE [found |-> FALSE, id |-> <<>>]

\* checkViewMode with loadSavedText(id) up to its first await
checkViewMode(rv, loc, present) ==
    LET m == ViewModeId(rv, loc)
    IN IF m.found /\ present
       THEN [ViewerAsServed(present) EXCEPT !.pc = "get", !.id = m.id, !.gets = 1]
       ELSE ViewerAsServed(present)

\* addresses the page may be opened at
ViewPaths ==
    {<<"/">>, <<"/">> \o IdA, <<"/", "v", "i", "e", "w">>,
     <<"/", "1", "2", "3", "4", "5", "6", "7">>}
QueryIds == {<<>>, IdA, <<"a", "b", "c">>}
ViewLocations ==
    {[path |-> p, hasId |-> FALSE, id |-> <<>>, href |-> <<>>] : p \in ViewPaths}
    \cup {[path |-> p, hasId |-> TRUE, id |-> i, href |-> <<>>] :
              p \in ViewPaths, i \in QueryIds}

\* paste contents get.php may return
PasteContents ==
    {<<"a">>, <<"<", "b", ">", "x">>, <<"a", "&", "b", "U+00A0">>,
     <<"&", "l", "t", ";">>}

\* the clock at load (ms) and expiry timestamps (s): an hour past, 30 and 90
\* minutes ahead
ViewNow == 7200000
ViewExpiries == {3600, 9000, 12600}

\* What get.php may answer: as for save.php, with data.fileType, data.content
\* and data.expiresAt on success.
GetResponses ==
    {[NoData EXCEPT !.transport = "rejected"]}
    \cup {[NoData EXCEPT !.transport = "ok", !.body = "not-json"]}
    \cup {[NoData EXCEPT !.transport = "ok", !.body = "json", !.data = "null"]}
    \cup {[NoData EXCEPT !.transport = "ok", !.body = "json", !.data = "object",
                         !.success = sc, !.message = m] :
              sc \in {"false", "undefined"}, m \in {"undefined", "'Not found'"}}
    \cup {[transport |-> "ok", body |-> "json", data |-> "object", success |-> "true",
           message |-> "undefined", fileType |-> ft, content |-> c, expiresAt |-> e] :
              ft \in {"js", "txt", "sql", "constructor", "undefined", "'><script>"},
              c \in PasteContents, e \in ViewExpiries}

\* the array codeLanguages, per revision
codeLanguages(rv) ==
    {"js", "py", "java", "cpp", "html", "css", "json", "xml"}
    \cup (IF rv = "old" THEN {} ELSE {"php"})
    \cup (IF rv = "new" THEN {"sql", "yaml"} ELSE {})

\* String.prototype.toUpperCase on the file types of the model
ToUpperCase(t) ==
    CASE t = "js" -> "JS"
      [] t = "txt" -> "TXT"
      [] t = "sql" -> "SQL"
      [] t = "constructor" -> "CONSTRUCTOR"
      [] t = "'><script>" -> "'><SCRIPT>"
      [] OTHER -> t

\* the statements of the try block before any element is written throw
LoadFailed(resp) ==
    FetchRejects(resp) \/ JsonRejects(resp) \/ ReadThrows(resp)
        \/ ~Truthy(resp.success)

\* viewerContent.innerHTML of the terminal state written by the catch block
NotFound == [kind |-> "not-found", lang |-> "-", text |-> <<>>]

\* the catch block letting the error go
OnLoadErrorRethrow(v) == [v EXCEPT !.pc = "done", !.threw = TRUE]

\* the catch block of loadSavedText
OnLoadError(v) == [v EXCEPT !.pc = "done", !.content = NotFound, !.threw = FALSE]

\* the template literal assigned to viewerContent.innerHTML: a code block with
\* class language-<fileType> for a code language, a preformatted block otherwise
Render(rv, resp) ==
    IF resp.fileType \in codeLanguages(rv)
    THEN [kind |-> "code", lang |-> resp.fileType, text |-> escapeHtml(resp.content)]
    ELSE [kind |-> "pre", lang |-> "-", text |-> escapeHtml(resp.content)]

\* loadSavedText from the settling of its request; hljs: whether the page has
\* loaded the highlighter ("old" calls it unguarded), now: the clock (ms)
loadSavedText(rv, v, resp, hljs, now) ==
    LET v0 == [v EXCEPT !.data = resp]
        v1 == [v0 EXCEPT !.header.id = v.id]
        v2 == [v1 EXCEPT !.header.type = ToUpperCase(resp.fileType),
                         !.header.expires =
                             formatExpiry(rv, ExpiryDiff(resp.expiresAt, now))]
        v3 == [v2 EXCEPT !.content = Render(rv, resp)]
    IN IF LoadFailed(resp) THEN OnLoadError(v0)
       ELSE IF resp.fileType = "undefined" THEN OnLoadError(v1)
       ELSE IF resp.fileType \in codeLanguages(rv) /\ rv = "old" /\ ~hljs
            THEN OnLoadError(v3)
       ELSE [v3 EXCEPT !.pc = "done", !.bound = TRUE]

\* the get request of loadSavedText settles
GetSettles(resp, hljs, now) ==
    /\ viewer.pc = "get"
    /\ viewer' = loadSavedText(rev, viewer, resp, hljs, now)
    /\ UNCHANGED <<rev, textEditor, customId, fileType, charCount, idStatus,
                   validations, submitBtn, subs, result, alertMsg, saved, call>>
    /\ UNCHANGED <<searchId, location, util>>
    /\ UNCHANGED sideVars

\* the 'click' listener of downloadBtn: downloadContent(data.content, id,
\* data.fileType) offers the file <id>.<extension>
DownloadClick ==
    /\ viewer.bound
    /\ viewer' = [viewer EXCEPT !.download =
                      viewer.id \o <<".", getFileExtension(rev, viewer.data.fileType)>>]
    /\ UNCHANGED <<rev, textEditor, customId, fileType, charCount, idStatus,
                   validations, submitBtn, subs, result, alertMsg, saved, call>>
    /\ UNCHANGED <<searchId, location, util>>
    /\ UNCHANGED sideVars

\* the 'click' listener of rawBtn: window.open of raw.php?id=<id>
RawClick ==
    /\ viewer.bound
    /\ viewer' = [viewer EXCEPT !.raw = viewer.id]
    /\ UNCHANGED createVars
    /\ UNCHANGED <<searchId, location, util>>
    /\ UNCHANGED sideVars

(***************************************************************************)
(* The search box.                                                         *)
(***************************************************************************)
\* what a user may type into searchId
TypedSearches ==
    {<<>>, IdA, IdShort, IdPadded,
     <<"0", "0", "0", "0", "0", "0">>,
     <<"1", "2", "a", "4", "5", "6">>,
     <<"1", "2", "3", "4", "5", "6", "7">>,
     <<"1", "2", "3", "4", "5", "6", " ">>}

\* the 'input' listener of searchId: "app" and "new" strip non-digits in
\* place, "old" has no such listener
SearchInput(raw) ==
    /\ alertMsg = NoAlert
    /\ searchId' = CleanedInput(rev, raw)
    /\ UNCHANGED createVars
    /\ UNCHANGED <<location, viewer, util>>
    /\ UNCHANGED sideVars

\* the alert of handleSearch, per revision
AlertSearch(rv) ==
    IF rv = "new" THEN <<"Please enter a valid 6-digit code">>
    ELSE <<"Please enter a valid 6-digit ID">>

\* handleSearch rejecting nothing
SearchNeverRejected(id) == FALSE

\* the test of handleSearch on the trimmed search text
SearchRejected(id) == ~validateId(id)

\* handleSearch(), from the click on searchBtn or Enter in searchId
handleSearch ==
    /\ alertMsg = NoAlert
    /\ LET id == TrimStr(searchId)
       IN IF SearchRejected(id)
          THEN alertMsg' = AlertSearch(rev) /\ UNCHANGED location
          ELSE location' = [location EXCEPT !.href = <<"/">> \o id]
                 /\ UNCHANGED alertMsg
    /\ UNCHANGED <<rev, textEditor, customId, fileType, charCount, idStatus,
                   validations, submitBtn, subs, result, saved, call>>
    /\ UNCHANGED <<searchId, viewer, util>>
    /\ UNCHANGED sideVars

(***************************************************************************)
(* Navigation: the browser loads the page again at a URL the page made.    *)
(***************************************************************************)
\* window.location of the page loaded for a URL: the URL is resolved against
\* the origin, and neither URL the page makes has a query
LocationOf(url) ==
    [path |-> IF SubSeq(url, 1, Len(Origin)) = Origin
              THEN SubSeq(url, Len(Origin) + 1, Len(url))
              ELSE url,
     hasId |-> FALSE, id |-> <<>>, href |-> <<>>]

\* the document is replaced by the page served at url: every element is as
\* served again, what was outstanding is abandoned, and the constructor runs
\* checkViewMode; `present` is whether the page has the element viewerContent
LoadPage(url, present) ==
    /\ alertMsg = NoAlert
    /\ location' = LocationOf(url)
    /\ viewer' = checkViewMode(rev, LocationOf(url), present)
    /\ textEditor' = <<>>
    /\ customId' = <<>>
    /\ fileType' \in FileTypes
    /\ charCount' = [shown |-> 0, unit |-> "-", over |-> FALSE]
    /\ idStatus' = StatusClear
    /\ validations' = <<>>
    /\ submitBtn' = [disabled |-> FALSE, label |-> NormalLabel]
    /\ subs' = <<>>
    /\ result' = [hidden |-> TRUE, id |-> <<>>, link |-> <<>>]
    /\ call' = IdleCall
    /\ searchId' = <<>>
    /\ util' = NoUtil
    /\ reads' = <<>>
    /\ copy' = CopyAsServed(rev)
    /\ chosen' = NoChoice
    /\ UNCHANGED <<rev, alertMsg, saved>>

\* the navigation started by handleSearch's assignment to window.location.href
Navigate(present) ==
    /\ location.href # <<>>
    /\ LoadPage(location.href, present)

\* the shareable URL of the result section is opened
OpenResultLink(present) ==
    /\ ~result.hidden
    /\ LoadPage(result.link, present)

(***************************************************************************)
(* The copy buttons.                                                       *)
(***************************************************************************)
AlertCopyFailed == <<"Failed to copy to clipboard">>

\* the button the .then callback of copyToClipboard writes to: "app" and "old"
\* always write to elements.copyBtn, "new" to the button passed in
copyToClipboard(rv, button) ==
    [button |-> IF rv = "new" THEN button ELSE "copyBtn"]

\* entries a click may add to the writes and timers outstanding
CopyRoom(k) == Len(copy.writes) + Len(copy.timers) + k <= MaxCopies

\* the 'click' listener of copyBtn, in the result section
CopyClick ==
    /\ alertMsg = NoAlert
    /\ ~result.hidden
    /\ CopyRoom(1)
    /\ copy' = [copy EXCEPT !.writes = Append(@, copyToClipboard(rev, "copyBtn"))]
    /\ UNCHANGED createVars
    /\ UNCHANGED viewVars
    /\ UNCHANGED <<reads, chosen>>

\* the 'click' listener of copyContentBtn bound by loadSavedText: "app" and
\* "old" write the acknowledgment and start its timer in the listener itself
ContentCopyClick ==
    /\ alertMsg = NoAlert
    /\ viewer.bound
    /\ IF rev = "new"
       THEN /\ CopyRoom(1)
            /\ copy' = [copy EXCEPT
                          !.writes = Append(@, copyToClipboard(rev, "copyContentBtn"))]
       ELSE /\ CopyRoom(2)
            /\ copy' = [copy EXCEPT
                          !.writes = Append(@, copyToClipboard(rev, "copyContentBtn")),
                          !.copyContentBtn = CopiedLabel(rev),
                          !.timers = Append(@, [button |-> "copyContentBtn",
                                                label |-> CopyLabel(rev)])]
    /\ UNCHANGED createVars
    /\ UNCHANGED viewVars
    /\ UNCHANGED <<reads, chosen>>

\* what the user is shown when writeText rejects: "app" alerts, "new" logs to
\* the console, "old" has no catch
OnCopyError(rv) == IF rv = "app" THEN AlertCopyFailed ELSE NoAlert

\* the label the timer started by the .then callback puts back on button b
RestoredLabel(rv, b) == IF rv = "new" THEN CopyLabel(rv) ELSE copy[b]

\* the i-th writeText promise settles, fulfilled (ok) or rejected
WriteSettles(i, ok) ==
    /\ alertMsg = NoAlert
    /\ i \in 1..Len(copy.writes)
    /\ LET b == copy.writes[i].button
       IN IF ok
          THEN /\ copy' = [copy EXCEPT !.writes = RemoveAt(@, i),
                                       ![b] = CopiedLabel(rev),
                                       !.timers = Append(@, [button |-> b,
                                                             label |-> RestoredLabel(rev, b)])]
               /\ UNCHANGED alertMsg
          ELSE /\ copy' = [copy EXCEPT !.writes = RemoveAt(@, i)]
               /\ alertMsg' = OnCopyError(rev)
    /\ UNCHANGED <<rev, textEditor, customId, fileType, charCount, idStatus,
                   validations, submitBtn, subs, result, saved, call>>
    /\ UNCHANGED viewVars
    /\ UNCHANGED <<reads, chosen>>

\* the oldest setTimeout callback runs (all have the delay 2000)
TimerFires ==
    /\ alertMsg = NoAlert
    /\ copy.timers # <<>>
    /\ LET t == Head(copy.timers)
       IN copy' = [copy EXCEPT ![t.button] = t.label, !.timers = Tail(@)]
    /\ UNCHANGED createVars
    /\ UNCHANGED viewVars
    /\ UNCHANGED <<reads, chosen>>

(***************************************************************************)
(* The synchronous functions of utils, one call at a time.                 *)
(***************************************************************************)
\* strings passed to validateId
IdStrings ==
    {<<>>, IdShort, IdA, IdPadded,
     <<"0", "0", "0", "0", "0", "0">>,
     <<"1", "2", "3", "4", "5", "6", "7">>,
     <<"1", "2", "3", "4", "5", " ">>,
     <<"+", "1", "2", "3", "4", "5">>,
     <<"-", "1", "2", "3", "4", "5">>,
     <<"1", "2", "a", "4", "5", "6">>,
     <<"1", "2", "3", "4", "5", "6", "\n">>,
     <<"1", "2", "3", "4", "5", "\n">>,
     <<"U+0661", "U+0662", "U+0663", "U+0664", "U+0665", "U+0666">>}

CallValidateId(s) ==
    /\ util.fn = "none"
    /\ util' = [fn |-> "validateId", arg |-> s,
                ret |-> IF validateId(s) THEN <<"true">> ELSE <<"false">>]
    /\ UNCHANGED createVars
    /\ UNCHANGED <<searchId, location, viewer>>
    /\ UNCHANGED sideVars

\* r is what Math.random() returns
CallGenerateId(r) ==
    /\ util.fn = "none"
    /\ util' = [fn |-> "generateId", arg |-> r, ret |-> generateId(r)]
    /\ UNCHANGED createVars
    /\ UNCHANGED <<searchId, location, viewer>>
    /\ UNCHANGED sideVars

\* clocks (ms) and expiry timestamps (s) formatExpiry is called with: the
\* timestamps lie from 90 minutes before to 25 hours after the clock
ExpiryNows == {ViewNow, ViewNow + 500}
ExpiryOffsets ==
    {0 - 5400, 0 - 3600, 0 - 60, 0 - 1, 0, 1, 59, 60, 61, 1800, 3599, 3600, 3601,
     5400, 90000}
ExpiryTimestamps == {(ViewNow \div 1000) + o : o \in ExpiryOffsets}

\* now is what `new Date()` returns
CallFormatExpiry(timestamp, now) ==
    /\ util.fn = "none"
    /\ util' = [fn |-> "formatExpiry", arg |-> <<timestamp, now>>,
                ret |-> formatExpiry(rev, ExpiryDiff(timestamp, now))]
    /\ UNCHANGED createVars
    /\ UNCHANGED <<searchId, location, viewer>>
    /\ UNCHANGED sideVars

\* file types getFileExtension is called with: the options of the select, and
\* whatever get.php returns as data.fileType
TypeNames ==
    {"txt", "md", "json", "xml", "html", "css", "js", "py", "java", "cpp", "php",
     "sql", "yaml", "other", "zip", "TXT", ""} \cup InheritedKeys

CallGetFileExtension(type) ==
    /\ util.fn = "none"
    /\ util' = [fn |-> "getFileExtension", arg |-> <<type>>,
                ret |-> <<getFileExtension(rev, type)>>]
    /\ UNCHANGED createVars
    /\ UNCHANGED <<searchId, location, viewer>>
    /\ UNCHANGED sideVars

\* byte counts formatBytes is called with
ByteCounts ==
    {0, 1, 512, 1023, K, K + 1, 1536, 1075, 10240, K * K - 1, K * K, 1234567,
     MAX_SIZE, K * K * K - 1}

CallFormatBytes(bytes) ==
    /\ util.fn = "none"
    /\ util' = [fn |-> "formatBytes", arg |-> bytes, ret |-> formatBytes(rev, bytes)]
    /\ UNCHANGED createVars
    /\ UNCHANGED <<searchId, location, viewer>>
    /\ UNCHANGED sideVars

\* the caller has taken the value
UtilReturns ==
    /\ util.fn # "none"
    /\ util' = NoUtil
    /\ UNCHANGED createVars
    /\ UNCHANGED <<searchId, location, viewer>>
    /\ UNCHANGED sideVars

\* the page opened at any address, with or without the viewer elements, after
\* the constructor has run checkViewMode
InitView ==
    /\ rev \in Revisions
    /\ textEditor = <<>>
    /\ customId = <<>>
    /\ fileType \in FileTypes
    /\ charCount = [shown |-> 0, unit |-> "-", over |-> FALSE]
    /\ idStatus = StatusClear
    /\ validations = <<>>
    /\ submitBtn = [disabled |-> FALSE, label |-> NormalLabel]
    /\ subs = <<>>
    /\ result = [hidden |-> TRUE, id |-> <<>>, link |-> <<>>]
    /\ alertMsg = NoAlert
    /\ saved = {}
    /\ call = IdleCall
    /\ searchId = <<>>
    /\ location \in ViewLocations
    /\ viewer \in {checkViewMode(rev, location, present) : present \in BOOLEAN}
    /\ util = NoUtil
    /\ reads = <<>>
    /\ copy = CopyAsServed(rev)
    /\ chosen = NoChoice

\* identifiers the page passes to checkIdAvailability
CheckedIds == {IdA, <<"0", "0", "0", "0", "0", "0">>} \cup {generateId(r) : r \in GenSamples}

(***************************************************************************)
(* Spec: the Create Flow with every input of the page.                     *)
(***************************************************************************)
Next ==
    \/ \E t \in EditorTexts : EditorInput(t)
    \/ \E ft \in FileTypes : FileTypeChange(ft)
    \/ \E raw \in TypedIds : CustomIdInput(raw)
    \/ \E i \in 1..MaxValidations, resp \in CheckResponses : ValidationReturns(i, resp)
    \/ \E r \in FewSamples : SubmitClick(MaxInFlight, r)
    \/ \E i \in 1..MaxInFlight, resp \in CheckResponses, r \in FewSamples :
          CheckReturns(i, resp, r)
    \/ \E i \in 1..MaxInFlight, resp \in SaveResponses : SaveSettles(i, resp)
    \/ DismissAlert

Spec == Init /\ [][Next]_vars

(***************************************************************************)
(* SpecLoop: submissions with no custom identifier (the regeneration       *)
(* loop), every value of Math.random() of the model.                       *)
(***************************************************************************)
NextLoop ==
    \/ EditorInput(TextSmall)
    \/ \E r \in GenSamples : SubmitClick(MaxInFlight, r)
    \/ \E i \in 1..MaxInFlight, resp \in CheckResponses, r \in GenSamples :
          CheckReturns(i, resp, r)
    \/ \E i \in 1..MaxInFlight, resp \in SaveResponses : SaveSettles(i, resp)
    \/ DismissAlert

SpecLoop == Init /\ [][NextLoop]_vars

(***************************************************************************)
(* SpecRace: the same with submit clicks racing the network.               *)
(***************************************************************************)
NextRace ==
    \/ EditorInput(TextSmall)
    \/ \E r \in GenSamples : SubmitClick(MaxSubmits, r)
    \/ \E i \in 1..MaxSubmits, resp \in CheckResponses, r \in GenSamples :
          CheckReturns(i, resp, r)
    \/ \E i \in 1..MaxSubmits, resp \in SaveResponses : SaveSettles(i, resp)
    \/ DismissAlert

SpecRace == Init /\ [][NextRace]_vars

(***************************************************************************)
(* SpecCheck: utils.checkIdAvailability against every answer of the        *)
(* endpoint.                                                               *)
(***************************************************************************)
NextCheck ==
    \/ \E id \in CheckedIds : CallCheck(id)
    \/ \E resp \in CheckResponses : FetchSettles(resp)
    \/ JsonSettles
    \/ CallReturns

SpecCheck == Init /\ [][NextCheck]_vars

(***************************************************************************)
(* SpecSearch: the search box of the page.                                 *)
(***************************************************************************)
NextSearch ==
    \/ \E raw \in TypedSearches : SearchInput(raw)
    \/ handleSearch
    \/ DismissAlert

SpecSearch == Init /\ [][NextSearch]_vars

(***************************************************************************)
(* SpecUtil: the synchronous functions of utils over their inputs.         *)
(***************************************************************************)
NextUtil ==
    \/ \E s \in IdStrings : CallValidateId(s)
    \/ \E r \in 0..(RandDen - 1) : CallGenerateId(r)
    \/ \E timestamp \in ExpiryTimestamps, now \in ExpiryNows :
          CallFormatExpiry(timestamp, now)
    \/ \E type \in TypeNames : CallGetFileExtension(type)
    \/ \E bytes \in ByteCounts : CallFormatBytes(bytes)
    \/ UtilReturns

SpecUtil == Init /\ [][NextUtil]_vars

(***************************************************************************)
(* SpecView: the page opened at any address; the View Flow.                *)
(***************************************************************************)
NextView ==
    \/ \E resp \in GetResponses, hljs \in BOOLEAN : GetSettles(resp, hljs, ViewNow)
    \/ DownloadClick
    \/ RawClick

SpecView == InitView /\ [][NextView]_vars

(***************************************************************************)
(* SpecUpload: file uploads into the draft.                                *)
(***************************************************************************)
NextUpload ==
    \/ \E file \in UploadFiles : handleFileUpload(file)
    \/ \E i \in 1..MaxReads : ReaderLoads(i)
    \/ \E i \in 1..MaxReads : ReaderFails(i)
    \/ EditorInput(TextSmall)
    \/ \E ft \in FileTypes : FileTypeChange(ft)
    \/ DismissAlert

SpecUpload == Init /\ [][NextUpload]_vars

(***************************************************************************)
(* SpecReads: files are dropped or picked and their reads load, in any     *)
(* order; the user touches nothing else.                                   *)
(***************************************************************************)
NextReads ==
    \/ \E file \in UploadFiles : handleFileUpload(file)
    \/ \E i \in 1..MaxReads : ReaderLoads(i)
    \/ DismissAlert

SpecReads == Init /\ [][NextReads]_vars

(***************************************************************************)
(* SpecDraft: the same with the submission of the draft.                   *)
(***************************************************************************)
NextDraft ==
    \/ NextUpload
    \/ \E r \in FewSamples : SubmitClick(MaxInFlight, r)
    \/ \E i \in 1..MaxInFlight, resp \in CheckResponses, r \in FewSamples :
          CheckReturns(i, resp, r)
    \/ \E i \in 1..MaxInFlight, resp \in SaveResponses : SaveSettles(i, resp)

SpecDraft == Init /\ [][NextDraft]_vars

(***************************************************************************)
(* SpecCopy: a draft is saved and the link of the result is copied.        *)
(***************************************************************************)
NextCopy ==
    \/ EditorInput(TextSmall)
    \/ \E r \in FewSamples : SubmitClick(MaxInFlight, r)
    \/ \E i \in 1..MaxInFlight, resp \in CheckResponses, r \in FewSamples :
          CheckReturns(i, resp, r)
    \/ \E i \in 1..MaxInFlight, resp \in SaveResponses : SaveSettles(i, resp)
    \/ DismissAlert
    \/ CopyClick
    \/ \E i \in 1..MaxCopies, ok \in BOOLEAN : WriteSettles(i, ok)
    \/ TimerFires

SpecCopy == Init /\ [][NextCopy]_vars

(***************************************************************************)
(* SpecViewCopy: the page opened at any address; the content of the paste  *)
(* shown is copied.                                                        *)
(***************************************************************************)
NextViewCopy ==
    \/ \E resp \in GetResponses, hljs \in BOOLEAN : GetSettles(resp, hljs, ViewNow)
    \/ ContentCopyClick
    \/ \E i \in 1..MaxCopies, ok \in BOOLEAN : WriteSettles(i, ok)
    \/ TimerFires
    \/ DismissAlert

SpecViewCopy == InitView /\ [][NextViewCopy]_vars

(***************************************************************************)
(* SpecIdField: the custom-id field and its advisory indicator.            *)
(***************************************************************************)
NextIdField ==
    \/ \E raw \in TypedIds \cup TypedSearches : CustomIdInput(raw)
    \/ \E i \in 1..MaxValidations, resp \in CheckResponses : ValidationReturns(i, resp)

SpecIdField == Init /\ [][NextIdField]_vars

(***************************************************************************)
(* SpecNavigate: the page followed through the URLs it makes, the address  *)
(* of a search and the link of a result.                                   *)
(***************************************************************************)
NextNavigate ==
    \/ \E raw \in {IdA, IdShort} : SearchInput(raw)
    \/ handleSearch
    \/ EditorInput(TextSmall)
    \/ \E r \in FewSamples : SubmitClick(MaxInFlight, r)
    \/ \E i \in 1..MaxInFlight, resp \in CheckResponses, r \in FewSamples :
          CheckReturns(i, resp, r)
    \/ \E i \in 1..MaxInFlight, resp \in SaveResponses : SaveSettles(i, resp)
    \/ DismissAlert
    \/ \E present \in BOOLEAN : Navigate(present)
    \/ \E present \in BOOLEAN : OpenResultLink(present)

SpecNavigate == Init /\ [][NextNavigate]_vars

(***************************************************************************)
(* Properties.  The operators below restate what the claims speak of       *)
(* without using the operators of the page they are checked against.       *)
(***************************************************************************)
\* exactly six characters, all ASCII digits
IsSixDigits(s) == Len(s) = 6 /\ \A i \in 1..6 : s[i] \in Digits

\* the UTF-8 encoded length of a run-length text
RECURSIVE Utf8Bytes(_)
Utf8Bytes(t) ==
    IF t = <<>> THEN 0
    ELSE LET c == Head(t).ch
             w == IF c = "U+00E9" THEN 2
                  ELSE IF c = "U+20AC" THEN 3
                  ELSE IF c = "U+1F600" THEN 4 ELSE 1
         IN w * Head(t).n + Utf8Bytes(Tail(t))

\* the success shape of the check call: {exists: bool}
IsCheckSuccessShape(resp) ==
    resp.transport = "ok" /\ resp.body = "json" /\ resp.data = "object"
        /\ resp.exists \in {"true", "false"}

Draft == <<textEditor, customId, fileType>>

ValidationAlerts == {AlertEmpty, AlertTooLarge, AlertBadId}

\* a validation alert opens in this step
ValidationAlertOpens == alertMsg = NoAlert /\ alertMsg' \in ValidationAlerts

\* a handleSubmit invocation reaches its first network call in this step
InvocationStarts == Len(subs') > Len(subs)

\* the draft has one of the three validation errors
HasValidationError ==
    LET content == TrimText(textEditor)
        id == TrimStr(customId)
    IN \/ content = <<>>
       \/ Utf8Bytes(content) > 2621440
       \/ id # <<>> /\ ~IsSixDigits(id)

\* invocations whose save request was sent and whose handler has not ended
SaveReached(s) == {i \in 1..Len(s) : s[i].pc \in {"save", "alert"}}

\* invocations whose save request is outstanding
SaveOutstanding(s) == {i \in 1..Len(s) : s[i].pc = "save"}

\* custom-identifier invocations waiting for their availability check
CustomChecking(s) == {i \in 1..Len(s) : s[i].custom /\ s[i].pc = "check"}

\* C1: in handleSubmit with no custom identifier the regeneration loop is
\* bounded: no invocation regenerates its identifier more than 10 times,
\* whatever the check endpoint answers.
C1_RegenerationBounded ==
    \A i \in 1..Len(subs) : subs[i].attempts <= 10

\* C2: duplicate concurrent submissions are prevented: at most one handleSubmit
\* invocation is in progress and at most one save request is outstanding.
C2_OneSaveOutstanding ==
    Cardinality(SaveOutstanding(subs)) <= 1

\* C3: a validation error (content empty after trimming, content over the size
\* ceiling, a custom identifier that is not 6 digits) is surfaced by an alert
\* and aborts handleSubmit: the step that opens the alert sends no check and no
\* save request and leaves the submit control and the draft unchanged, the alert
\* opens only on a draft with such an error, and no invocation reaches a network
\* call from a draft with such an error.
C3_ValidationErrorAborts ==
    [][ /\ ValidationAlertOpens =>
              /\ HasValidationError
              /\ subs' = subs
              /\ validations' = validations
              /\ submitBtn' = submitBtn
              /\ Draft' = Draft
        /\ InvocationStarts => ~HasValidationError ]_vars

\* C3 witness: the alert for a malformed custom identifier is open over a draft
\* whose content is acceptable.
C3_Witness ==
    /\ alertMsg = AlertBadId
    /\ TrimText(textEditor) # <<>>
    /\ TrimStr(customId) # <<>>

\* C4: the size gate measures the UTF-8 byte length of the trimmed content:
\* handleSubmit rejects the content as too large only if that length exceeds
\* 2,621,440, and goes past the gate only if it does not.
C4_GateMeasuresUtf8Bytes ==
    [][ /\ (alertMsg = NoAlert /\ alertMsg' = AlertTooLarge) =>
              Utf8Bytes(TrimText(textEditor)) > 2621440
        /\ (InvocationStarts \/ (alertMsg = NoAlert /\ alertMsg' = AlertBadId)) =>
              Utf8Bytes(TrimText(textEditor)) <= 2621440 ]_vars

\* C4 witness: content of exactly 2,621,440 bytes was accepted and is in flight,
\* and multi-byte content of fewer than 2,621,440 characters has just been
\* rejected as too large.
C4_Witness ==
    /\ \E i \in 1..Len(subs) : Utf8Bytes(subs[i].content) = 2621440
    /\ alertMsg = AlertTooLarge
    /\ StrLength(TrimText(textEditor)) < 2621440

\* C5: checkIdAvailability is fail-closed: when the request fails in transport
\* or the body cannot be parsed, it returns false and throws nothing.
C5_FailClosed ==
    (call.pc = "done"
        /\ (call.resp.transport = "rejected" \/ call.resp.body = "not-json"))
    => (call.ret = FALSE /\ call.threw = FALSE)

\* C5 witness: a call has returned on an unparsable body.
C5_Witness ==
    call.pc = "done" /\ call.resp.transport = "ok" /\ call.resp.body = "not-json"

\* C6: checkIdAvailability returns true only when the parsed response has the
\* success shape with exists = false.
C6_OnlyExistsFalseIsFree ==
    (call.pc = "done" /\ call.ret = TRUE)
    => (IsCheckSuccessShape(call.resp) /\ call.resp.exists = "false")

\* C7: a save request for a custom identifier is issued only after an
\* availability check of the same invocation answered free, whatever the
\* indicator shows; a custom-identifier invocation whose check answers
\* unavailable ends with the alert 'already taken' and sends no save request.
C7_CustomIdCheckedAtSubmit ==
    /\ [](\A i \in SaveReached(subs) : subs[i].custom => subs[i].lastCheck = "free")
    /\ [][ Cardinality(CustomChecking(subs')) < Cardinality(CustomChecking(subs)) =>
              \/ Cardinality(SaveReached(subs')) > Cardinality(SaveReached(subs))
              \/ /\ alertMsg' = AlertTaken
                 /\ Len(subs') < Len(subs)
                 /\ Cardinality(SaveReached(subs')) = Cardinality(SaveReached(subs)) ]_vars

\* C7 witness: the save request of a custom identifier is outstanding while the
\* advisory indicator shows 'taken'.
C7_Witness ==
    /\ \E i \in SaveOutstanding(subs) : subs[i].custom
    /\ idStatus = StatusTaken(rev)

\* C8: with no custom identifier, an invocation leaves the regeneration loop for
\* the save request with the identifier whose check it has just awaited, and only
\* when that check answered free or no attempt remains; once a check answers free
\* the save request follows at once; and an invocation sends one save request.
C8_SaveCarriesFreeId ==
    [][ \A i \in 1..Len(subs) :
          (Len(subs') = Len(subs) /\ ~subs[i].custom) =>
            /\ (subs[i].pc = "check" /\ subs'[i].pc = "save") =>
                  /\ subs'[i].id = subs[i].id
                  /\ subs'[i].lastCheck = "free" \/ subs[i].attempts >= 10
            /\ (subs[i].pc = "check" /\ subs'[i] # subs[i]
                    /\ subs'[i].lastCheck = "free") =>
                  subs'[i].pc = "save"
            /\ (subs[i].pc \in {"save", "alert"}) =>
                  /\ subs'[i].pc \in {"save", "alert"}
                  /\ subs'[i].id = subs[i].id ]_vars

\* C8 witness: the save request is outstanding after at least one collision, and
\* the check of the identifier it carries answered free.
C8_Witness ==
    \E i \in SaveOutstanding(subs) :
        ~subs[i].custom /\ subs[i].collided /\ subs[i].lastCheck = "free"

\* C9: once the save request of an invocation has settled and the handler has
\* ended, the submit control is enabled and shows its normal label.
C9_ReenabledAfterSave ==
    [][ Cardinality(SaveReached(subs')) < Cardinality(SaveReached(subs)) =>
            (~submitBtn'.disabled /\ submitBtn'.label = NormalLabel) ]_vars

\* C10: whenever the result section is visible, the displayed identifier was
\* sent in a save request answered success = true and the displayed URL is
\* <origin>/<identifier>.
C10_ResultOnlyOnSuccess ==
    ~result.hidden =>
        /\ result.id \in saved
        /\ result.link = Origin \o <<"/">> \o result.id

\* C10 witness: the result section shows a custom identifier.
C10_Witness ==
    ~result.hidden /\ result.id = IdA

\* the server's message of a save answer, when it parsed and carried one
HasServerMessage(f) ==
    f.transport = "ok" /\ f.body = "json" /\ f.data = "object"
        /\ f.message \notin {"undefined", "-"}

\* failure texts that are not the server's
GenericFailures ==
    {"Failed to save", "Failed to fetch", "Unexpected token",
     "Cannot read properties of null"}

\* C11: when the save call of an invocation fails (success not true, or a
\* transport or parse error), the handler opens an alert 'Error: <message>'
\* whose message is the server's when the answer carried one and a generic
\* failure text otherwise, the result section is left as it was, and the editor
\* content, the file type and the custom identifier field are unchanged.
C11_SaveFailureSurfaced ==
    [][ \A i \in 1..Len(subs) :
          (Len(subs') = Len(subs) /\ subs[i].pc = "save" /\ subs'[i].pc = "alert") =>
            LET f == subs'[i].failure
            IN /\ f.success # "true"
               /\ alertMsg = NoAlert
               /\ Len(alertMsg') = 2 /\ alertMsg'[1] = "Error: "
               /\ HasServerMessage(f) => alertMsg'[2] = f.message
               /\ ~HasServerMessage(f) => alertMsg'[2] \in GenericFailures
               /\ result' = result
               /\ Draft' = Draft ]_vars

\* C11 witness: the alert shows the server's message for a draft with a custom
\* identifier, and no result is shown.
C11_Witness ==
    /\ \E i \in 1..Len(subs) :
          subs[i].pc = "alert" /\ HasServerMessage(subs[i].failure)
    /\ alertMsg = <<"Error: ", "'ID already exists'">>
    /\ customId = IdA
    /\ result.hidden

\* the address carries a 6-digit identifier in the query parameter id
QueryShape(loc) == loc.hasId /\ IsSixDigits(loc.id)

\* the address path is /<6 digits>
PathShape(loc) ==
    Len(loc.path) = 7 /\ loc.path[1] = "/" /\ IsSixDigits(SubSeq(loc.path, 2, 7))

\* the identifier the address names, in either shape
AddressedId(loc) == IF QueryShape(loc) THEN loc.id ELSE SubSeq(loc.path, 2, 7)

\* C12: on a page with the viewer render target, loadSavedText is called with
\* the identifier both when the address has ?id=<6 digits> and when its path
\* is /<6 digits>; with neither, or without the render target, no get request
\* is issued.
C12_BothShapesAccepted ==
    /\ (viewer.present /\ (QueryShape(location) \/ PathShape(location))) =>
          (viewer.gets >= 1 /\ viewer.id = AddressedId(location))
    /\ (~viewer.present \/ ~(QueryShape(location) \/ PathShape(location))) =>
          viewer.gets = 0

\* the fetch-by-id call failed: transport error, unparsable body, or a body
\* that does not say success = true
GetFailed(d) ==
    \/ d.transport = "rejected"
    \/ d.transport = "ok" /\ d.body = "not-json"
    \/ d.transport = "ok" /\ d.body = "json" /\ d.success # "true"

\* C13: every failure of the get call ends loadSavedText in the terminal
\* not-found state with no action button bound and no error escaping, and one
\* page load issues exactly one get request.
C13_ViewFailureTerminal ==
    /\ viewer.gets <= 1
    /\ viewer.pc # "idle" => viewer.gets = 1
    /\ ~viewer.threw
    /\ (viewer.pc = "done" /\ GetFailed(viewer.data)) =>
          /\ viewer.content.kind = "not-found"
          /\ viewer.content.text = <<>>
          /\ ~viewer.bound

\* C13 witness: the get request was rejected in transport and the page shows
\* the not-found state.
C13_Witness ==
    /\ viewer.pc = "done"
    /\ viewer.data.transport = "rejected"
    /\ viewer.content.kind = "not-found"

\* the characters an entity of escaped text stands for
Unescape(text) ==
    [i \in 1..Len(text) |->
        IF text[i] = "&amp;" THEN "&"
        ELSE IF text[i] = "&lt;" THEN "<"
        ELSE IF text[i] = "&gt;" THEN ">"
        ELSE IF text[i] = "&nbsp;" THEN "U+00A0"
        ELSE text[i]]

\* the names a class attribute may carry
LanguageNames ==
    {"js", "py", "java", "cpp", "html", "css", "json", "xml", "php", "sql", "yaml"}

\* C14: whatever loadSavedText has written into viewerContent as markup from
\* the fetched data is escaped: the text of the code block or preformatted
\* block has no raw <, > or &, it stands for exactly the paste content, and the
\* only other fetched string in the markup, the language class, is one of the
\* fixed language names.
C14_RenderedContentEscaped ==
    viewer.content.kind \in {"code", "pre"} =>
        /\ \A i \in 1..Len(viewer.content.text) :
              viewer.content.text[i] \notin {"<", ">", "&"}
        /\ Unescape(viewer.content.text) = viewer.data.content
        /\ viewer.content.kind = "code" => viewer.content.lang \in LanguageNames
        /\ viewer.content.kind = "pre" => viewer.content.lang = "-"

\* C14 witness: a paste whose content has markup characters and whose file
\* type is itself markup is shown in the preformatted block.
C14_Witness ==
    /\ viewer.content.kind = "pre"
    /\ viewer.data.fileType = "'><script>"
    /\ \E i \in 1..Len(viewer.content.text) : viewer.content.text[i] = "&lt;"

\* C15: validateId(s) is true exactly when s is six characters, all ASCII
\* digits; the empty string, 5- and 7-digit strings, and strings with a space,
\* a sign, a letter, a non-ASCII digit or a trailing newline are rejected.
C15_ValidateIdIffSixDigits ==
    util.fn = "validateId" =>
        /\ util.ret \in {<<"true">>, <<"false">>}
        /\ util.ret = <<"true">> <=> IsSixDigits(util.arg)

\* C15 witness: validateId has rejected six digits followed by a newline.
C15_Witness ==
    /\ util.fn = "validateId"
    /\ util.arg = <<"1", "2", "3", "4", "5", "6", "\n">>
    /\ util.ret = <<"false">>

\* the number a string of decimal digits denotes
RECURSIVE DecimalValue(_)
DecimalValue(s) ==
    IF s = <<>> THEN 0
    ELSE DecimalValue(SubSeq(s, 1, Len(s) - 1)) * 10
             + (CHOOSE d \in 0..9 : DigitChars[d + 1] = s[Len(s)])

\* C16: for every value of the random source in [0, 1), generateId returns a
\* string that validateId accepts: six digits, the decimal form of an integer
\* in 100000..999999.
C16_GeneratedIdValid ==
    util.fn = "generateId" =>
        /\ validateId(util.ret)
        /\ IsSixDigits(util.ret)
        /\ DecimalValue(util.ret) \in 100000..999999

\* C16 witness: generateId has run on the greatest value of the random source.
C16_Witness ==
    /\ util.fn = "generateId"
    /\ util.arg = RandDen - 1
    /\ Len(util.ret) = 6

\* the remaining-time policy for diff = expiry - now in milliseconds
ExpectedExpiry(diff) ==
    LET h == diff \div 3600000
        m == (diff % 3600000) \div 60000
    IN IF diff < 60000 THEN <<"Expired">>
       ELSE IF diff < 3600000 THEN ToString(m) \o <<"m">>
       ELSE ToString(h) \o <<"h", " ">> \o ToString(m) \o <<"m">>

\* C17: formatExpiry returns 'Expired' when no whole minute remains, only
\* '<minutes>m' when less than an hour remains, and '<hours>h <minutes>m'
\* otherwise.
C17_ExpiryPolicy ==
    util.fn = "formatExpiry" =>
        util.ret = ExpectedExpiry(util.arg[1] * 1000 - util.arg[2])

\* the recognized file types
RecognizedTypes ==
    {"txt", "md", "json", "xml", "html", "css", "js", "py", "java", "cpp", "php",
     "sql", "yaml"}

\* C18: getFileExtension maps each recognized type to the extension of the
\* same name, and 'other' and every other string to 'txt'.
C18_ExtensionTable ==
    util.fn = "getFileExtension" =>
        util.ret = (IF util.arg[1] \in RecognizedTypes THEN util.arg ELSE <<"txt">>)

\* the digits after the decimal point of a formatted number
DecimalsOf(text) ==
    IF \E i \in 1..Len(text) : text[i] = "."
    THEN LET dot == CHOOSE i \in 1..Len(text) : text[i] = "."
             sp == CHOOSE i \in 1..Len(text) : text[i] = " "
         IN sp - dot - 1
    ELSE 0

\* C19: formatBytes prints 0 as '0 B', a count below 1024 in B, below 1024^2
\* in KB and below 1024^3 in MB, with at most two decimals; 1024 is '1 KB' and
\* 2621440 is '2.5 MB'.
C19_BytesBase1024 ==
    util.fn = "formatBytes" =>
        LET n == util.arg
            unit == util.ret[Len(util.ret)]
        IN /\ n = 0 => util.ret = <<"0", " ", "B">>
           /\ (0 < n /\ n < 1024) => unit = "B"
           /\ (1024 <= n /\ n < 1048576) => unit = "KB"
           /\ (1048576 <= n /\ n < 1073741824) => unit = "MB"
           /\ DecimalsOf(util.ret) <= 2
           /\ n = 1024 => util.ret = <<"1", " ", "KB">>
           /\ n = 2621440 => util.ret = <<"2", ".", "5", " ", "MB">>

\* no request is sent and none settles in this step
NoNetworkCall ==
    /\ subs' = subs
    /\ validations' = validations
    /\ call' = call
    /\ viewer' = viewer

SearchAlerts ==
    {<<"Please enter a valid 6-digit ID">>, <<"Please enter a valid 6-digit code">>}

\* C20: handleSearch assigns the location only when the trimmed search text is
\* exactly 6 digits, and then to that identifier's view URL /<id>; otherwise it
\* opens its alert and leaves the location alone; in neither case is a network
\* call issued.
C20_SearchNavigatesOnValidId ==
    [][ /\ location' # location =>
              /\ IsSixDigits(TrimStr(searchId))
              /\ location' = [location EXCEPT !.href = <<"/">> \o TrimStr(searchId)]
              /\ alertMsg' = alertMsg
              /\ NoNetworkCall
        /\ (alertMsg = NoAlert /\ alertMsg' \in SearchAlerts) =>
              /\ ~IsSixDigits(TrimStr(searchId))
              /\ location' = location
              /\ NoNetworkCall ]_vars

\* C20 witness: the search has navigated to the view URL of an identifier typed
\* with white space around it.
C20_Witness ==
    /\ location.href = <<"/">> \o IdA
    /\ searchId = IdPadded

\* a step in which the alert of an oversized upload opens
FileAlertOpens == alertMsg = NoAlert /\ alertMsg' = AlertFileTooLarge

\* the page takes the file: the upload starts a read of it
AcceptsFile(f) == ENABLED (handleFileUpload(f) /\ reads' = Append(reads, f))

\* C21: an upload that raises the too-large alert starts no read and leaves the
\* editor content, the size meter and the file-type selection as they were; no
\* read is ever started for a file above 2,621,440 bytes; and a file of
\* exactly 2,621,440 bytes is accepted, its read started, whenever an upload
\* can be made.
C21_OversizedUploadRejected ==
    [][/\ FileAlertOpens =>
            /\ reads' = reads
            /\ textEditor' = textEditor
            /\ charCount' = charCount
            /\ fileType' = fileType
       /\ \A i \in 1..Len(reads') : reads'[i].size <= 2621440
       /\ \A f \in UploadFiles :
            (f.size = 2621440 /\ alertMsg = NoAlert /\ Len(reads) < MaxReads)
                => AcceptsFile(f)]_vars

\* an oversized upload was refused while the editor held the content read from
\* a file of exactly 2,621,440 bytes
C21_Witness ==
    /\ alertMsg = AlertFileTooLarge
    /\ textEditor = FileAtLimit
    /\ Utf8Bytes(textEditor) = 2621440

\* the copy buttons of the page
CopyButtons == {"copyBtn", "copyContentBtn"}

\* the acknowledgment, as the user reads it on a button
Acknowledged(label) == label \in {"Copied!", "bi bi-check"}

\* a step in which a clipboard write settles: rejected (no acknowledgment timer
\* is started) or fulfilled
WriteFails ==
    Len(copy'.writes) < Len(copy.writes) /\ Len(copy'.timers) = Len(copy.timers)
WriteSucceeds ==
    Len(copy'.writes) < Len(copy.writes) /\ Len(copy'.timers) > Len(copy.timers)

\* C22: a clipboard write that fails changes the label of no copy button and
\* opens no alert, and the acknowledgment appears on a button only in the step
\* in which a write succeeds.
C22_CopyBestEffort ==
    [][/\ WriteFails =>
            /\ \A b \in CopyButtons : copy'[b] = copy[b]
            /\ alertMsg' = NoAlert
       /\ \A b \in CopyButtons :
            (Acknowledged(copy'[b]) /\ ~Acknowledged(copy[b])) => WriteSucceeds]_vars

\* what the user reads on the identifier indicator
ShowsCleared(st) == st.text = "" /\ st.className = "id-status"
ShowsInvalid(st) ==
    st.className = "id-status taken" /\ st.text \in {"Must be 6 digits", "bi-x-circle"}
ShowsAvailable(st) ==
    st.className = "id-status available" /\ st.text \in {"Available", "bi-check-circle"}
ShowsTaken(st) ==
    st.className = "id-status taken" /\ st.text \in {"Already taken", "bi-x-circle"}

\* the indicator for a check that returned free or not
ShowsResult(st, free) == IF free THEN ShowsAvailable(st) ELSE ShowsTaken(st)

\* a step of the 'input' listener of the custom-id field
IdInputStep == customId' # customId \/ Len(validations') > Len(validations)

C24_MeterIsTheGate ==
    charCount.over <=> Utf8Bytes(TrimText(textEditor)) > 2621440

\* the identifiers in the requests the page has sent or is sending: check
\* (handleSubmit, validateCustomId, a call of checkIdAvailability), save, get
\* and raw
CheckRequestIds ==
    {subs[i].id : i \in {j \in 1..Len(subs) : subs[j].pc = "check"}}
        \cup {validations[i] : i \in 1..Len(validations)}
        \cup (IF call.pc \in {"fetch", "json"} THEN {call.id} ELSE {})
SaveRequestIds == {subs[i].id : i \in {j \in 1..Len(subs) : subs[j].pc = "save"}}
GetRequestIds == IF viewer.gets >= 1 THEN {viewer.id} ELSE {}
RawRequestIds == IF viewer.raw # <<>> THEN {viewer.raw} ELSE {}

\* C25: every identifier in a check, save, get or raw request is exactly 6
\* digits; no get request is made for an address whose identifier is not.
C25_RequestIdsAreSixDigits ==
    \A id \in CheckRequestIds \cup SaveRequestIds \cup GetRequestIds \cup RawRequestIds :
        IsSixDigits(id)

\* no clipboard write is outstanding and every acknowledgment timer has fired
CopySettled == copy.writes = <<>> /\ copy.timers = <<>>

\* C26: once the copy clicks have settled and all their timers have fired, the
\* result-copy button shows the label it had before the first click, not the
\* acknowledgment.
C26_AcknowledgmentReverts ==
    CopySettled => (copy.copyBtn \in {"Copy", "bi bi-clipboard"}
                       /\ ~Acknowledged(copy.copyBtn))

\* C27: when no availability check of validateCustomId is outstanding, the
\* indicator corresponds to the current value of the custom-id field: cleared
\* if it is empty, invalid if it is not 6 digits, and the result of a check
\* (available or taken) if it is.
C27_IndicatorNeverStale ==
    validations = <<>> =>
        /\ customId = <<>> => ShowsCleared(idStatus)
        /\ (customId # <<>> /\ ~IsSixDigits(customId)) => ShowsInvalid(idStatus)
        /\ IsSixDigits(customId) => (ShowsAvailable(idStatus) \/ ShowsTaken(idStatus))

\* C28: the save request carries the draft as it was when handleSubmit was
\* invoked: its content is the (trimmed) editor content of that moment, its
\* fileType the selection of that moment and, for a custom identifier, its id
\* the (trimmed) custom-id field of that moment.
C28_SaveCarriesSnapshot ==
    \A i \in 1..Len(subs) :
        subs[i].pc = "save" =>
            /\ SavePayload(subs[i]).content = TrimText(subs[i].draft.content)
            /\ SavePayload(subs[i]).fileType = subs[i].draft.fileType
            /\ subs[i].custom => SavePayload(subs[i]).id = TrimStr(subs[i].draft.customId)

\* a step in which the browser arrives at a URL the page made: the address of
\* a search, or the link of a result
ArrivesBySearch == location.href # <<>> /\ location'.path = location.href
ArrivesByResult ==
    /\ ~result.hidden
    /\ location'.path = <<"/">> \o result.id
    /\ location'.path # location.path

\* C29: the page loaded at the address handleSearch navigates to, or at the
\* shareable URL of a result, with the viewer render target present, is in
\* view mode: loadSavedText has been called with exactly the identifier of
\* that URL, and its get request is outstanding.
C29_OwnUrlsLeadToView ==
    [][(ArrivesBySearch \/ ArrivesByResult) /\ viewer'.present =>
          /\ IsSixDigits(SubSeq(location'.path, 2, Len(location'.path)))
          /\ viewer'.pc = "get"
          /\ viewer'.gets = 1
          /\ viewer'.id = SubSeq(location'.path, 2, Len(location'.path))]_vars

\* the get response says success = true and carries content
GetSucceeded(d) ==
    d.transport = "ok" /\ d.body = "json" /\ d.data = "object"
        /\ d.success = "true" /\ d.content # <<>>

\* C30: whenever the not-found state is rendered, no viewer metadata field
\* (identifier, type label, remaining time) was populated and no action was
\* bound; and whenever loadSavedText has ended on a response with success =
\* true and content, the content is rendered, not the not-found state, also
\* when the response has no fileType.
C30_OutcomesExclusive ==
    /\ viewer.content.kind = "not-found" =>
          /\ viewer.header.id = <<>>
          /\ viewer.header.type = "-"
          /\ viewer.header.expires = <<>>
          /\ ~viewer.bound
    /\ (viewer.pc = "done" /\ GetSucceeded(viewer.data)) =>
          /\ viewer.content.kind \in {"code", "pre"}
          /\ viewer.content.text # <<>>

\* a file has been accepted and every read started has completed
UploadsSettled == reads = <<>> /\ chosen.file.name # <<>>

\* the extension of the file most recently chosen, and the options it may match
ChosenExtension == ToLowerCase(chosen.file.name[Len(chosen.file.name)])
KnownOptions == {"txt", "js"}

\* C31: once all the reads of the accepted uploads have completed, the editor
\* holds the text of the file chosen last, and the file-type selection is that
\* file's extension if it is a known option and otherwise what it was before
\* the uploads.
C31_LastChosenFileWins ==
    UploadsSettled =>
        /\ textEditor = chosen.file.text
        /\ fileType = IF ChosenExtension \in KnownOptions
                      THEN ChosenExtension
                      ELSE chosen.typeBefore
====
